---- MODULE Spec2Model ----
(***************************************************************************)
(* A state-machine model of sped.c, the streaming PNG -> RGB565 decoder.   *)
(*                                                                         *)
(* The PNG image is a byte sequence, parsed as sped_decode parses it.      *)
(* tinfl (miniz) is external to the repository: it is modelled by its      *)
(* driver contract.  The zlib stream carried by the IDAT payloads is taken *)
(* to be made of stored (uncompressed) bytes, so the i-th decompressed     *)
(* byte is the i-th byte fed to the decompressor; `zend` is the length of  *)
(* the stream (where tinfl reports DONE) and `zbad` the index of a corrupt *)
(* byte (where tinfl reports a negative status), or -1.                    *)
(***************************************************************************)
EXTENDS Integers, Sequences, FiniteSets, TLC

(* ------------------------------ bounds -------------------------------- *)
\* largest width / height of the generated images
MaxW == 2
MaxH == 3
\* how many times the caller decodes the same image (determinism)
MaxCalls == 2
\* up to MaxBatch bytes tinfl takes all or half of the input it can use and
\* fills the output window to any length; beyond, it takes all the input
\* and leaves fewer than MaxLag bytes of the window unwritten
MaxBatch == 64
MaxLag == 2

(* --------------------------- program constants ------------------------ *)
SPED_MAX_IDAT == 64
TINFL_LZ_DICT_SIZE == 32768
TINFL_STATUS_FAILED == -1
TINFL_STATUS_DONE == 0
TINFL_STATUS_NEEDS_MORE_INPUT == 1
TINFL_STATUS_HAS_MORE_OUTPUT == 2

png_sig == <<137, 80, 78, 71, 13, 10, 26, 10>>
T_IHDR == <<73, 72, 68, 82>>
T_PLTE == <<80, 76, 84, 69>>
T_tRNS == <<116, 82, 78, 83>>
T_IDAT == <<73, 68, 65, 84>>
T_IEND == <<73, 69, 78, 68>>

(* ------------------------------ helpers ------------------------------- *)
Min(a, b) == IF a < b THEN a ELSE b

\* buf[off] for a C array held as a TLA+ sequence
At(buf, off) == buf[off + 1]

\* (int)(a * b) for uint32_t a and a small int b: the low 32 bits of the
\* product read as a signed int, computed on 16-bit halves
Mul32(a, b) ==
    LET lo == (a % 65536) * b
        hi == ((a \div 65536) * b + lo \div 65536) % 65536
    IN  IF hi >= 32768 THEN (hi - 65536) * 65536 + (lo % 65536)
        ELSE hi * 65536 + (lo % 65536)

\* r32: 4-byte big-endian integer at buf + off
r32(buf, off) ==
    At(buf, off) * 16777216 + At(buf, off + 1) * 65536
      + At(buf, off + 2) * 256 + At(buf, off + 3)

\* memcmp(buf + off, tag, n) == 0
SameBytes(buf, off, tag) ==
    \A i \in 0 .. Len(tag) - 1 : At(buf, off + i) = tag[i + 1]

\* faulty variant: the three distances are not made absolute
paeth_signed(a, b, c) ==
    LET p  == a + b - c
        pa == p - a
        pb == p - b
        pc0 == p - c
    IN  IF pa <= pb /\ pa <= pc0 THEN a
        ELSE IF pb <= pc0 THEN b
        ELSE c

\* paeth(a, b, c)
paeth(a, b, c) ==
    LET p  == a + b - c
        pa == IF p - a < 0 THEN a - p ELSE p - a
        pb == IF p - b < 0 THEN b - p ELSE p - b
        pc0 == IF p - c < 0 THEN c - p ELSE p - c
    IN  IF pa <= pb /\ pa <= pc0 THEN a
        ELSE IF pb <= pc0 THEN b
        ELSE c

\* faulty variant: the palette entry is read as blue, green, red
PalAtBGR(pal, idx, g) ==
    IF idx \in DOMAIN pal THEN <<pal[idx][3], pal[idx][2], pal[idx][1]>> ELSE <<g, g, g>>

\* pal[idx]: an entry no PLTE chunk wrote is uninitialised stack memory (g)
PalAt(pal, idx, g) == IF idx \in DOMAIN pal THEN pal[idx] ELSE <<g, g, g>>

\* get_pixel: <<r, g, b>> of column x of the reconstructed scanline c
get_pixel(c, x, ctype, bpc, pal, g) ==
    IF bpc = 1
    THEN CASE ctype = 0 -> <<At(c, x), At(c, x), At(c, x)>>
           [] ctype = 2 -> <<At(c, x * 3), At(c, x * 3 + 1), At(c, x * 3 + 2)>>
           [] ctype = 3 -> PalAt(pal, At(c, x), g)
           [] ctype = 4 -> <<At(c, x * 2), At(c, x * 2), At(c, x * 2)>>
           [] ctype = 6 -> <<At(c, x * 4), At(c, x * 4 + 1), At(c, x * 4 + 2)>>
           [] OTHER -> <<0, 0, 0>>
    ELSE CASE ctype = 0 -> <<At(c, x * 2), At(c, x * 2), At(c, x * 2)>>
           [] ctype = 2 -> <<At(c, x * 6), At(c, x * 6 + 2), At(c, x * 6 + 4)>>
           [] ctype = 4 -> <<At(c, x * 4), At(c, x * 4), At(c, x * 4)>>
           [] ctype = 6 -> <<At(c, x * 8), At(c, x * 8 + 2), At(c, x * 8 + 4)>>
           [] OTHER -> <<0, 0, 0>>

\* faulty variant: green masked with 0xF8 instead of 0xFC
Pack565NarrowGreen(r, g, b) == ((r \div 8) * 8) * 256 + ((g \div 8) * 8) * 8 + (b \div 8)

\* ((r & 0xF8) << 8) | ((g & 0xFC) << 3) | (b >> 3)
Pack565(r, g, b) == ((r \div 8) * 8) * 256 + ((g \div 4) * 4) * 8 + (b \div 8)

(* ------------------- scanline -> pixels (pure parts) ------------------ *)
\* the inverse filter loop over i = from .. stride-1 (cur is rebuilt in place)
RECURSIVE Unfilter(_, _, _, _, _)
Unfilter(c, p, f, nbpp, i) ==
    IF i >= Len(c) THEN c
    ELSE LET a  == IF i >= nbpp THEN At(c, i - nbpp) ELSE 0
             b  == At(p, i)
             cv == IF i >= nbpp THEN At(p, i - nbpp) ELSE 0
             d  == CASE f = 1 -> a
                     [] f = 2 -> b
                     [] f = 3 -> ((a + b) \div 2) % 256
                     [] f = 4 -> paeth(a, b, cv)
                     [] OTHER -> 0
         IN  Unfilter([c EXCEPT ![i + 1] = (c[i + 1] + d) % 256], p, f, nbpp, i + 1)

\* scale == 1: out[x] for x in 0 .. w-1
RowDirect(c, nw, ctype, bpc, pal, g) ==
    [k \in 1 .. nw |->
        LET px == get_pixel(c, k - 1, ctype, bpc, pal, g)
        IN  Pack565(px[1], px[2], px[3])]

\* for (x = 0; x < limit && x < w; x++) with limit = out_w * scale
AccLimit(now, sc, nw) == Min(now * sc, nw)

\* faulty variant: the lanes are 8 bits wide
RECURSIVE AccumulateByte(_, _, _, _, _, _, _, _, _)
AccumulateByte(a, c, x, lim, sc, ctype, bpc, pal, g) ==
    IF x >= lim THEN a
    ELSE LET px == get_pixel(c, x, ctype, bpc, pal, g)
             ox == x \div sc
         IN  AccumulateByte([a EXCEPT ![ox * 3 + 1] = (a[ox * 3 + 1] + px[1]) % 256,
                                      ![ox * 3 + 2] = (a[ox * 3 + 2] + px[2]) % 256,
                                      ![ox * 3 + 3] = (a[ox * 3 + 3] + px[3]) % 256],
                            c, x + 1, lim, sc, ctype, bpc, pal, g)

\* the accumulation loop, from column x on; lanes are uint16_t
RECURSIVE Accumulate(_, _, _, _, _, _, _, _, _)
Accumulate(a, c, x, lim, sc, ctype, bpc, pal, g) ==
    IF x >= lim THEN a
    ELSE LET px == get_pixel(c, x, ctype, bpc, pal, g)
             ox == x \div sc
         IN  Accumulate([a EXCEPT ![ox * 3 + 1] = (a[ox * 3 + 1] + px[1]) % 65536,
                                  ![ox * 3 + 2] = (a[ox * 3 + 2] + px[2]) % 65536,
                                  ![ox * 3 + 3] = (a[ox * 3 + 3] + px[3]) % 65536],
                        c, x + 1, lim, sc, ctype, bpc, pal, g)

\* faulty variant: emits on the first row of a block instead of the last
EmitDueFirstRow(r, sc) == (r % sc) = 0

\* if ((row % scale) == scale - 1)
EmitDue(r, sc) == (r % sc) = sc - 1

\* int div = scale * scale
AvgDiv(sc) == sc * sc

\* n zero elements: calloc, memset(.., 0, ..)
Zeros(n) == [k \in 1 .. n |-> 0]

\* faulty variant: the accumulator is not cleared after a row is emitted
AccKept(a, now) == a

\* memset(acc, 0, out_w * 3 * sizeof(uint16_t)) after a row is emitted
AccCleared(a, now) == Zeros(now * 3)

\* out[ox] for ox in 0 .. out_w-1 from the accumulator; (uint8_t)(acc / div)
RowAveraged(a, now, sc) ==
    [k \in 1 .. now |->
        Pack565((a[(k - 1) * 3 + 1] \div AvgDiv(sc)) % 256,
                (a[(k - 1) * 3 + 2] \div AvgDiv(sc)) % 256,
                (a[(k - 1) * 3 + 3] \div AvgDiv(sc)) % 256)]


(* ------------------------------- state -------------------------------- *)
VARIABLES
    png, scale,             \* the arguments of sped_decode (len is Len(png))
    zend, zbad,             \* the zlib stream held by the IDAT payloads
    dict_size,              \* TINFL_LZ_DICT_SIZE of the inflate header built in
    pc, ret,                \* position in sped_decode, and its return value
    w, h, ctype, bpc, bpp, stride, out_w, out_h,
    pal, pal_a, idat, garbage,
    cur, prev, out, dict, acc,      \* pointers: a heap block, or 0 for NULL
    mem, nfree, allocd,     \* heap: block contents, free() calls, blocks handed out
    dict_ofs, ci, in_ptr, in_remain,
    sl_pos, filter, row, out_row,
    st, dp, avail,
    cbs,                    \* the row callback's invocations, in order
    lines,                  \* the reconstructed scanlines, in order
    fed, zpos,              \* file offsets tinfl consumed; bytes tinfl has output
    calls, first,           \* calls of sped_decode so far; result of the first
    info, info_ret, info_called     \* sped_info: the caller's record, the
                                    \* return value, whether it has been called

vars == <<png, scale, zend, zbad, dict_size, pc, ret, w, h, ctype, bpc, bpp, stride,
          out_w, out_h, pal, pal_a, idat, garbage, cur, prev, out, dict, acc,
          mem, nfree, allocd, dict_ofs, ci, in_ptr, in_remain, sl_pos, filter,
          row, out_row, st, dp, avail, cbs, lines, fed, zpos, calls, first,
          info, info_ret, info_called>>

inputVars == <<png, scale, zend, zbad, dict_size>>
hdrVars == <<w, h, ctype, bpc, bpp, stride, out_w, out_h>>
scanVars == <<pal, pal_a, idat, garbage>>
heapVars == <<cur, prev, out, dict, acc, mem, nfree, allocd>>
feedVars == <<dict_ofs, ci, in_ptr, in_remain, st, dp, avail, fed, zpos>>
asmVars == <<sl_pos, filter, row, out_row, cbs, lines>>
callVars == <<calls, first, info, info_ret, info_called>>

len == Len(png)
nidat == Len(idat)

\* the heap blocks, in the order sped_decode requests them
B_cur == 1
B_prev == 2
B_out == 3
B_dict == 4
B_acc == 5
Blocks == {B_cur, B_prev, B_out, B_dict, B_acc}

\* the values an uninitialised byte of the stack may hold
Garbage == {0, 255}

(* --------------------------- sped_info (74-83) ------------------------ *)
\* faulty variant: width and height are read from each other's offset
sped_info_swapped(buf, rec) ==
    IF Len(buf) < 33 \/ ~SameBytes(buf, 0, png_sig) THEN [ret |-> -1, info |-> rec]
    ELSE IF r32(buf, 8) # 13 \/ ~SameBytes(buf, 12, T_IHDR) THEN [ret |-> -1, info |-> rec]
    ELSE [ret |-> 0, info |-> [width |-> r32(buf, 20), height |-> r32(buf, 16)]]

\* sped_info(png, len, info): the return value and the record afterwards
sped_info(buf, rec) ==
    IF Len(buf) < 33 \/ ~SameBytes(buf, 0, png_sig) THEN [ret |-> -1, info |-> rec]
    ELSE IF r32(buf, 8) # 13 \/ ~SameBytes(buf, 12, T_IHDR) THEN [ret |-> -1, info |-> rec]
    ELSE [ret |-> 0, info |-> [width |-> r32(buf, 16), height |-> r32(buf, 20)]]

\* the caller asks for the dimensions, before or after decoding
Info ==
    /\ ~info_called
    /\ pc \in {"header", "done"}
    /\ info_called' = TRUE
    /\ info_ret' = sped_info(png, info).ret
    /\ info' = sped_info(png, info).info
    /\ UNCHANGED <<inputVars, pc, ret, hdrVars, scanVars, heapVars, feedVars,
                   asmVars, calls, first>>

(* --------------------- header validation (88-130) --------------------- *)
SigOK(buf) == Len(buf) >= 33 /\ SameBytes(buf, 0, png_sig)

IhdrOK(buf) == r32(buf, 8) = 13 /\ SameBytes(buf, 12, T_IHDR)

\* switch (ctype): bytes per pixel, or -1 for the default branch
BppOf(ct, nbpc) ==
    CASE ct = 0 -> 1 * nbpc
      [] ct = 2 -> 3 * nbpc
      [] ct = 3 -> 1
      [] ct = 4 -> 2 * nbpc
      [] ct = 6 -> 4 * nbpc
      [] OTHER -> -1

\* faulty variant: the interlace method is not looked at
SupportedAnyInterlace(buf, sc) ==
    /\ At(buf, 26) = 0
    /\ At(buf, 27) = 0
    /\ At(buf, 24) \in {8, 16}
    /\ ~(At(buf, 24) = 16 /\ At(buf, 25) = 3)
    /\ r32(buf, 16) # 0 /\ r32(buf, 20) # 0
    /\ BppOf(At(buf, 25), At(buf, 24) \div 8) # -1
    /\ r32(buf, 16) \div sc # 0 /\ r32(buf, 20) \div sc # 0

\* none of the "return -1" of lines 107-130 is taken
Supported(buf, sc) ==
    /\ At(buf, 26) = 0
    /\ At(buf, 27) = 0
    /\ At(buf, 28) = 0
    /\ At(buf, 24) \in {8, 16}
    /\ ~(At(buf, 24) = 16 /\ At(buf, 25) = 3)
    /\ r32(buf, 16) # 0 /\ r32(buf, 20) # 0
    /\ BppOf(At(buf, 25), At(buf, 24) \div 8) # -1
    /\ r32(buf, 16) \div sc # 0 /\ r32(buf, 20) \div sc # 0

Accepts(buf, sc) ==
    /\ sc \in {1, 2, 4}
    /\ SigOK(buf)
    /\ IhdrOK(buf)
    /\ Supported(buf, sc)

Header ==
    /\ pc = "header"
    /\ IF Accepts(png, scale)
       THEN /\ w' = r32(png, 16)
            /\ h' = r32(png, 20)
            /\ ctype' = At(png, 25)
            /\ bpc' = At(png, 24) \div 8
            /\ bpp' = BppOf(At(png, 25), At(png, 24) \div 8)
            /\ stride' = Mul32(r32(png, 16), BppOf(At(png, 25), At(png, 24) \div 8))
            /\ out_w' = r32(png, 16) \div scale
            /\ out_h' = r32(png, 20) \div scale
            /\ pc' = "scan"
            /\ ret' = ret
       ELSE /\ pc' = "done"
            /\ ret' = -1
            /\ UNCHANGED hdrVars
    /\ UNCHANGED <<inputVars, scanVars, heapVars, feedVars, asmVars, callVars>>

(* ------------------------ chunk scan (132-169) ------------------------ *)
\* the width of a pointer: 32 bits on the ESP32, 64 on a host build
PtrBits == {32, 64}

\* r32 of four bytes whose top bit is set, less 2^32: the distance a 32-bit
\* pointer moves when such a length is added to it
r32_wrapped(buf, off) ==
    (At(buf, off) - 256) * 16777216 + At(buf, off + 1) * 65536
      + At(buf, off + 2) * 256 + At(buf, off + 3)

\* a length of 2^31 or more in an IDAT descriptor: more than any buffer holds
Huge == 2147483647

\* the while loop from chunk pointer cp on; s = [pal, pal_a, idat] with the
\* pointer width (bits), the chunk offsets passed (seen) and how the loop
\* ends: "end" (it is left), "hang" (it comes back to a chunk it has
\* handled, and so never ends), "fault" (it reads outside the buffer)
RECURSIVE ScanFrom(_, _, _, _)
ScanFrom(buf, ct, cp, s) ==
    IF ~(cp + 12 <= Len(buf)) THEN s
    ELSE LET big  == At(buf, cp) >= 128          \* clen >= 2^31
             \* clen, or clen - 2^32 when big
             clen == IF big THEN r32_wrapped(buf, cp) ELSE r32(buf, cp)
             \* cp + 12 + clen: with 32-bit pointers and a big clen the sum
             \* wraps round to an address below cp + 12
             nxt  == cp + 12 + clen
             np   == IF big THEN 256 ELSE Min(clen \div 3, 256)
             nt   == IF big THEN 256 ELSE Min(clen, 256)
             \* cp += 12 + clen, and the loop again
             on(t) == IF nxt < 0 THEN [t EXCEPT !.end = "fault"]
                      ELSE IF nxt \in t.seen \cup {cp} THEN [t EXCEPT !.end = "hang"]
                      ELSE ScanFrom(buf, ct, nxt, [t EXCEPT !.seen = @ \cup {cp}])
         IN  \* if (cp + 12 + clen > end) break;  with 64-bit pointers a big
             \* clen always lands past end, with 32-bit pointers never
             IF (IF big THEN s.bits = 64 ELSE clen > Len(buf) - cp - 12) THEN s
             ELSE IF SameBytes(buf, cp + 4, T_PLTE)
             THEN IF cp + 8 + np * 3 > Len(buf) THEN [s EXCEPT !.end = "fault"]
                  ELSE on([s EXCEPT !.pal =
                           [i \in (DOMAIN s.pal) \cup (0 .. np - 1) |->
                               IF i < np
                               THEN <<At(buf, cp + 8 + i * 3),
                                      At(buf, cp + 8 + i * 3 + 1),
                                      At(buf, cp + 8 + i * 3 + 2)>>
                               ELSE s.pal[i]]])
             ELSE IF SameBytes(buf, cp + 4, T_tRNS)
             THEN IF ct = 3
                  THEN IF cp + 8 + nt > Len(buf) THEN [s EXCEPT !.end = "fault"]
                       ELSE on([s EXCEPT !.pal_a =
                                [i \in (DOMAIN s.pal_a) \cup (0 .. nt - 1) |->
                                    IF i < nt THEN At(buf, cp + 8 + i)
                                    ELSE s.pal_a[i]]])
                  ELSE on(s)
             ELSE IF SameBytes(buf, cp + 4, T_IDAT)
             THEN IF Len(s.idat) < SPED_MAX_IDAT
                  THEN on([s EXCEPT !.idat =
                             Append(@, [data |-> cp + 8,
                                        len |-> IF big THEN Huge ELSE clen])])
                  ELSE on(s)
             ELSE IF SameBytes(buf, cp + 4, T_IEND)
             THEN s
             ELSE on(s)

\* pal is uninitialised and pal_a is 255 everywhere (only the entries written
\* by a chunk are stored); the scan starts at base + 8 + 25
ScannedOn(buf, ct, b) ==
    ScanFrom(buf, ct, 33, [pal |-> <<>>, pal_a |-> <<>>, idat |-> <<>>,
                           bits |-> b, seen |-> {}, end |-> "end"])

\* the scan of a build whose pointers are wider than the lengths
Scanned(buf, ct) == ScannedOn(buf, ct, 64)

ScanChunks ==
    /\ pc = "scan"
    /\ \E s \in { ScannedOn(png, ctype, b) : b \in PtrBits } :
           /\ pal' = s.pal
           /\ pal_a' = s.pal_a
           /\ idat' = s.idat
           /\ IF s.end # "end"
              THEN pc' = s.end /\ ret' = ret
              ELSE IF Len(s.idat) = 0
              THEN pc' = "done" /\ ret' = -1
              ELSE pc' = "alloc" /\ ret' = ret
    /\ \E g \in (IF ctype = 3 THEN Garbage ELSE {0}) : garbage' = g
    /\ UNCHANGED <<inputVars, hdrVars, heapVars, feedVars, asmVars, callVars>>

(* ------------------- buffers and loop set-up (171-201) ---------------- *)
Requested == IF scale > 1 THEN Blocks ELSE Blocks \ {B_acc}

\* free() called on each pointer of ptrs in turn; free(NULL) does nothing
FreeAll(ptrs, nf) ==
    [b \in Blocks |-> nf[b] + Cardinality({i \in 1 .. Len(ptrs) : ptrs[i] = b})]

\* free(cur); free(prev); free(out); free(dict); free(acc);
FreeList(c, p, o, d, a) == <<c, p, o, d, a>>

\* faulty variant: one row too many
ContinueIncl(r, nh) == r <= nh

\* while (row < (int)h)
Continue(r, nh) == r < nh

Allocate ==
    /\ pc = "alloc"
    /\ \E got \in SUBSET Requested :
         \* calloc(1, stride) with a negative stride asks for ~2^64 bytes
         /\ stride < 0 => got \cap {B_cur, B_prev} = {}
         /\ cur' = (IF B_cur \in got THEN B_cur ELSE 0)
         /\ prev' = (IF B_prev \in got THEN B_prev ELSE 0)
         /\ out' = (IF B_out \in got THEN B_out ELSE 0)
         /\ dict' = (IF B_dict \in got THEN B_dict ELSE 0)
         /\ acc' = (IF B_acc \in got THEN B_acc ELSE 0)
         /\ allocd' = got
         /\ mem' = [b \in Blocks |->
                      IF b \notin got THEN <<>>
                      ELSE IF b \in {B_cur, B_prev} THEN Zeros(stride)
                      ELSE IF b = B_out THEN Zeros(out_w)
                      ELSE IF b = B_acc THEN Zeros(out_w * 3)
                      ELSE <<>>]
         /\ IF got # Requested
            THEN /\ nfree' = FreeAll(FreeList(cur', prev', out', dict', acc'), nfree)
                 /\ pc' = "done"
                 /\ ret' = -1
                 /\ UNCHANGED <<dict_ofs, ci, in_ptr, in_remain>>
            ELSE /\ dict_ofs' = 0
                 /\ ci' = 0
                 /\ in_ptr' = idat[1].data
                 /\ in_remain' = idat[1].len
                 /\ IF Continue(0, h)
                    THEN pc' = "call" /\ ret' = ret /\ nfree' = nfree
                    ELSE /\ nfree' = FreeAll(FreeList(cur', prev', out', dict', acc'), nfree)
                         /\ pc' = "done"
                         /\ ret' = 0
    /\ UNCHANGED <<inputVars, hdrVars, scanVars, st, dp, avail, fed, zpos,
                   asmVars, callVars>>

(* ------------------- the decompressor call (203-221) ------------------ *)
\* int more = (ci < nidat - 1) || (in_remain > 0)
more == (ci < nidat - 1) \/ (in_remain > 0)

\* What tinfl_decompress may do when offered n input bytes and an output
\* window of m bytes: consume k, write j, return status s.  It takes all the
\* input it can use or half of it, and writes any part of what it has read.
Tinfl(n, m, hasmore) ==
    LET zin  == Len(fed)
        bad  == zbad >= 0 /\ zbad < zend
        rcap == IF bad THEN zbad + 1 ELSE zend    \* bytes it will read
        wcap == IF bad THEN zbad ELSE zend        \* bytes it can write
        kmax == Min(n, IF rcap > zin THEN rcap - zin ELSE 0)
        jmax(k) == Min(m, Min(zin + k, wcap) - zpos)
    IN  UNION { UNION {
          { [k |-> k, j |-> j, s |-> s] :
              s \in IF bad /\ zin + k > zbad /\ zpos + j = wcap
                       THEN {TINFL_STATUS_FAILED}
                    ELSE IF ~bad /\ zpos + j = zend
                       THEN {TINFL_STATUS_DONE}
                    ELSE IF zpos + j < Min(zin + k, wcap) \/ k < n
                       THEN {TINFL_STATUS_HAS_MORE_OUTPUT}
                    ELSE IF hasmore
                       THEN {TINFL_STATUS_NEEDS_MORE_INPUT}
                    ELSE {TINFL_STATUS_NEEDS_MORE_INPUT, TINFL_STATUS_FAILED} }
          : j \in { jj \in 0 .. jmax(k) :
                      /\ k + jj > 0 \/ (kmax = 0 /\ jmax(0) = 0)
                      /\ jmax(k) <= MaxBatch \/ jmax(k) - jj < MaxLag } }
        : k \in { kk \in {kmax, kmax \div 2} : kmax <= MaxBatch \/ kk = kmax } }

\* faulty variant: the offset is not wrapped at the end of the dictionary
DictNoWrap(ofs, n) == ofs + n

\* (dict_ofs + out_bytes) & (TINFL_LZ_DICT_SIZE - 1)
DictWrap(ofs, n) == (ofs + n) % dict_size

Decompress ==
    /\ pc = "call"
    /\ \E r \in Tinfl(in_remain, dict_size - dict_ofs, more) :
         \* the file offset of the i-th byte fed, this call's input included
         LET fed1(i) == IF i <= Len(fed) THEN fed[i] ELSE in_ptr + (i - Len(fed)) - 1
         IN  /\ fed' = fed \o [i \in 1 .. r.k |-> in_ptr + i - 1]
             /\ in_ptr' = in_ptr + r.k
             /\ in_remain' = in_remain - r.k
             /\ mem' = [mem EXCEPT ![dict] =
                          \* the bytes written so far: dict[0 .. min(zpos, size))
                          [n \in 1 .. Min(zpos + r.j, dict_size) |->
                              IF n - 1 >= dict_ofs /\ n - 1 < dict_ofs + r.j
                              THEN At(png, fed1(zpos + (n - 1 - dict_ofs) + 1))
                              ELSE At(mem[dict], n - 1)]]
             /\ dp' = dict_ofs
             /\ avail' = r.j
             /\ dict_ofs' = DictWrap(dict_ofs, r.j)
             /\ zpos' = zpos + r.j
             /\ st' = r.s
    /\ pc' = "assemble"
    /\ UNCHANGED <<inputVars, hdrVars, scanVars, cur, prev, out, dict, acc,
                   nfree, allocd, ci, ret, asmVars, callVars>>

(* ------------------- scanline assembly (223-292) ---------------------- *)
\* faulty variant: cur = prev without saving the old cur
SwapLost(c, p) == <<p, p>>

\* uint8_t *tmp = prev; prev = cur; cur = tmp;  gives the new <<cur, prev>>
Swapped(c, p) == <<p, c>>

\* faulty variant: the bytes already copied into cur are not subtracted
NeedWhole(s, pos) == s

\* size_t need = (size_t)(stride - (sl_pos - 1))
Need(s, pos) == s - (pos - 1)

\* One pass of the inner while loop.
AssembleStep ==
    /\ pc = "assemble"
    /\ avail > 0 /\ Continue(row, h)
    /\ IF sl_pos = 0
       THEN /\ filter' = At(mem[dict], dp)
            /\ dp' = dp + 1
            /\ avail' = avail - 1
            /\ sl_pos' = 1
            /\ UNCHANGED <<cur, prev, mem, row, out_row, cbs, lines>>
       ELSE LET need == Need(stride, sl_pos)
                take == Min(avail, need)
                \* memcpy(cur + (sl_pos - 1), dp, take)
                filled == [k \in 1 .. Len(mem[cur]) |->
                             IF k >= sl_pos /\ k < sl_pos + take
                             THEN At(mem[dict], dp + (k - sl_pos))
                             ELSE mem[cur][k]]
            IN  /\ dp' = dp + take
                /\ avail' = avail - take
                /\ filter' = filter
                /\ IF sl_pos + take > stride
                   THEN LET rec == lines'[Len(lines')]
                            direct == RowDirect(rec, w, ctype, bpc, pal, garbage)
                            a1 == Accumulate(mem[acc], rec, 0, AccLimit(out_w, scale, w),
                                             scale, ctype, bpc, pal, garbage)
                            avg == RowAveraged(a1, out_w, scale)
                            m1 == IF scale = 1
                                  THEN [mem EXCEPT ![cur] = rec, ![out] = direct]
                                  ELSE IF EmitDue(row, scale)
                                  THEN [mem EXCEPT ![cur] = rec, ![out] = avg,
                                                   ![acc] = AccCleared(a1, out_w)]
                                  ELSE [mem EXCEPT ![cur] = rec, ![acc] = a1]
                            sw == Swapped(cur, prev)
                        IN  \* the reconstructed scanline is kept in lines
                            /\ lines' = Append(lines, Unfilter(filled, mem[prev], filter, bpp, 0))
                            /\ cbs' = IF scale = 1
                                      THEN Append(cbs, [y |-> row, w |-> w, px |-> direct])
                                      ELSE IF EmitDue(row, scale)
                                      THEN Append(cbs, [y |-> out_row, w |-> out_w, px |-> avg])
                                      ELSE cbs
                            /\ out_row' = IF scale > 1 /\ EmitDue(row, scale)
                                          THEN out_row + 1 ELSE out_row
                            /\ cur' = sw[1]
                            /\ prev' = sw[2]
                            \* memset(cur, 0, stride) on the new cur
                            /\ mem' = [m1 EXCEPT ![sw[1]] = Zeros(stride)]
                            /\ row' = row + 1
                            /\ sl_pos' = 0
                   ELSE /\ sl_pos' = sl_pos + take
                        /\ mem' = [mem EXCEPT ![cur] = filled]
                        /\ UNCHANGED <<cur, prev, row, out_row, cbs, lines>>
    /\ UNCHANGED <<inputVars, hdrVars, scanVars, out, dict, acc, nfree, allocd,
                   dict_ofs, ci, in_ptr, in_remain, st, fed, zpos,
                   pc, ret, callVars>>

(* ------------- next IDAT, status, loop test, exit (294-309) ----------- *)
\* faulty variant: moves to the next chunk even with input left in this one
NextChunkEager(c, n, rem) == IF c < n - 1 THEN c + 1 ELSE c

\* if (in_remain == 0 && ci < nidat - 1) ci++
NextChunk(c, n, rem) == IF rem = 0 /\ c < n - 1 THEN c + 1 ELSE c

\* faulty variant: the loop test comes before the test of a negative status
ExitLoopFirst(s, r, nh) ==
    IF s = TINFL_STATUS_DONE THEN "ok"
    ELSE IF Continue(r, nh) THEN "loop"
    ELSE IF s < 0 THEN "fail"
    ELSE "ok"

\* what follows the inner loop: "ok" (return 0), "fail" (return -1), "loop"
Exit(s, r, nh) ==
    IF s = TINFL_STATUS_DONE THEN "ok"
    ELSE IF s < 0 THEN "fail"
    ELSE IF Continue(r, nh) THEN "loop"
    ELSE "ok"

Advance ==
    /\ pc = "assemble"
    /\ ~(avail > 0 /\ Continue(row, h))
    /\ ci' = NextChunk(ci, nidat, in_remain)
    /\ IF ci' # ci
       THEN in_ptr' = idat[ci' + 1].data /\ in_remain' = idat[ci' + 1].len
       ELSE UNCHANGED <<in_ptr, in_remain>>
    /\ IF Exit(st, row, h) = "loop"
       THEN pc' = "call" /\ UNCHANGED <<ret, nfree>>
       ELSE /\ pc' = "done"
            /\ ret' = (IF Exit(st, row, h) = "ok" THEN 0 ELSE -1)
            /\ nfree' = FreeAll(FreeList(cur, prev, out, dict, acc), nfree)
    /\ UNCHANGED <<inputVars, hdrVars, scanVars, cur, prev, out, dict, acc, mem,
                   allocd, dict_ofs, st, dp, avail, fed, zpos, asmVars, callVars>>

(* ----------------- a second call on the same image -------------------- *)
Locals0 ==
    /\ pc = "header" /\ ret = 0
    /\ w = 0 /\ h = 0 /\ ctype = 0 /\ bpc = 0 /\ bpp = 0 /\ stride = 0
    /\ out_w = 0 /\ out_h = 0
    /\ pal = <<>> /\ pal_a = <<>> /\ idat = <<>> /\ garbage = 0
    /\ cur = 0 /\ prev = 0 /\ out = 0 /\ dict = 0 /\ acc = 0
    /\ mem = [b \in Blocks |-> <<>>]
    /\ nfree = [b \in Blocks |-> 0]
    /\ allocd = {}
    /\ dict_ofs = 0 /\ ci = 0 /\ in_ptr = 0 /\ in_remain = 0
    /\ sl_pos = 0 /\ filter = 0 /\ row = 0 /\ out_row = 0
    /\ st = 0 /\ dp = 0 /\ avail = 0
    /\ cbs = <<>> /\ lines = <<>> /\ fed = <<>> /\ zpos = 0

\* the caller decodes the same bytes again
Again ==
    /\ pc = "done"
    /\ calls < MaxCalls
    /\ calls' = calls + 1
    /\ first' = (IF calls = 1 THEN [ret |-> ret, cbs |-> cbs,
                                    ok |-> allocd = Requested] ELSE first)
    /\ pc' = "header" /\ ret' = 0
    /\ w' = 0 /\ h' = 0 /\ ctype' = 0 /\ bpc' = 0 /\ bpp' = 0 /\ stride' = 0
    /\ out_w' = 0 /\ out_h' = 0
    /\ pal' = <<>> /\ pal_a' = <<>> /\ idat' = <<>> /\ garbage' = 0
    /\ cur' = 0 /\ prev' = 0 /\ out' = 0 /\ dict' = 0 /\ acc' = 0
    /\ mem' = [b \in Blocks |-> <<>>]
    /\ nfree' = [b \in Blocks |-> 0]
    /\ allocd' = {}
    /\ dict_ofs' = 0 /\ ci' = 0 /\ in_ptr' = 0 /\ in_remain' = 0
    /\ sl_pos' = 0 /\ filter' = 0 /\ row' = 0 /\ out_row' = 0
    /\ st' = 0 /\ dp' = 0 /\ avail' = 0
    /\ cbs' = <<>> /\ lines' = <<>> /\ fed' = <<>> /\ zpos' = 0
    /\ UNCHANGED <<inputVars, info, info_ret, info_called>>

(* ------------------------ PNG images (inputs) ------------------------- *)
BE32(n) ==
    <<(n \div 16777216) % 256, (n \div 65536) % 256, (n \div 256) % 256, n % 256>>

\* [len:4BE][type:4][data:len][crc:4]; the CRC is never read
Chunk(tag, data) == BE32(Len(data)) \o tag \o data \o <<0, 0, 0, 0>>

Ihdr(wd, ht, d, ct, cm, fm, il) ==
    Chunk(T_IHDR, BE32(wd) \o BE32(ht) \o <<d, ct, cm, fm, il>>)

Iend == Chunk(T_IEND, <<>>)

Png(ih, body) == png_sig \o ih \o body \o Iend

\* nh scanlines of s bytes, each after filter byte f; the bytes are
\* q + d, q + 2d, ... modulo m
Bytes(s, nh, f, q, d, m) ==
    [i \in 1 .. nh * (s + 1) |->
        IF (i - 1) % (s + 1) = 0 THEN f ELSE (q + d * i) % m]

Scanlines(s, nh, f, q) == Bytes(s, nh, f, q, 37, 256)

\* what the caller's sped_info_t holds before sped_info is called
InfoBefore == [width |-> 77, height |-> 99]

\* an image, a scale and the stream the IDAT payloads hold, for a build
\* with an inflate header whose dictionary has ds bytes
InputFor(img, sc, ze, zb, ds) ==
    [png |-> img, scale |-> sc, zend |-> ze, zbad |-> zb, dsize |-> ds]

\* the same for miniz, whose dictionary has 32768 bytes
Input(img, sc, ze, zb) == InputFor(img, sc, ze, zb, TINFL_LZ_DICT_SIZE)

InitWith(inputs) ==
    /\ \E i \in inputs :
         /\ png = i.png
         /\ scale = i.scale
         /\ zend = i.zend
         /\ zbad = i.zbad
         /\ dict_size = i.dsize
    /\ Locals0
    /\ calls = 1
    /\ first = [ret |-> 0, cbs |-> <<>>, ok |-> FALSE]
    /\ info = InfoBefore
    /\ info_ret = 0
    /\ info_called = FALSE

\* 8-bit grayscale, one IDAT chunk
Gray(wd, ht, data) == Png(Ihdr(wd, ht, 8, 0, 0, 0, 0), Chunk(T_IDAT, data))

\* the streams tried for a wd x ht grayscale image: complete; ending (DONE)
\* one scanline early; cut one byte short; corrupt at byte 0, at the start
\* of the last scanline, at the last byte
GrayInputs(wd, ht, sc) ==
    LET full == Scanlines(wd, ht, 0, 7)
        n    == Len(full)
    IN  { Input(Gray(wd, ht, full), sc, n, -1),
          Input(Gray(wd, ht, Scanlines(wd, ht - 1, 0, 7)), sc, n - (wd + 1), -1),
          Input(Gray(wd, ht, SubSeq(full, 1, n - 1)), sc, n, -1),
          Input(Gray(wd, ht, full), sc, n, 0),
          Input(Gray(wd, ht, full), sc, n, n - (wd + 1)),
          Input(Gray(wd, ht, full), sc, n, n - 1) }

\* images and arguments that validation refuses
Base2x2 == Scanlines(2, 2, 0, 7)
Refused ==
    { Input(Gray(2, 2, Base2x2), 3, 6, -1),
      Input(Gray(2, 2, Base2x2), 0, 6, -1),
      Input(SubSeq(Gray(2, 2, Base2x2), 1, 32), 1, 6, -1),
      Input([Gray(2, 2, Base2x2) EXCEPT ![2] = 81], 1, 6, -1),
      Input(png_sig \o Chunk(T_IHDR, BE32(2) \o BE32(2) \o <<8, 0, 0, 0>>)
              \o Chunk(T_IDAT, Base2x2) \o Iend, 1, 6, -1),
      Input(png_sig \o Chunk(T_PLTE, BE32(2) \o BE32(2) \o <<8, 0, 0, 0, 0>>)
              \o Chunk(T_IDAT, Base2x2) \o Iend, 1, 6, -1),
      Input(Png(Ihdr(2, 2, 8, 0, 1, 0, 0), Chunk(T_IDAT, Base2x2)), 1, 6, -1),
      Input(Png(Ihdr(2, 2, 8, 0, 0, 1, 0), Chunk(T_IDAT, Base2x2)), 1, 6, -1),
      Input(Png(Ihdr(2, 2, 8, 0, 0, 0, 1), Chunk(T_IDAT, Base2x2)), 1, 6, -1),
      Input(Png(Ihdr(2, 2, 4, 0, 0, 0, 0), Chunk(T_IDAT, Base2x2)), 1, 6, -1),
      Input(Png(Ihdr(2, 2, 16, 3, 0, 0, 0), Chunk(T_IDAT, Base2x2)), 1, 6, -1),
      Input(Png(Ihdr(2, 2, 8, 1, 0, 0, 0), Chunk(T_IDAT, Base2x2)), 1, 6, -1),
      Input(Png(Ihdr(0, 2, 8, 0, 0, 0, 0), Chunk(T_IDAT, Base2x2)), 1, 6, -1),
      Input(Png(Ihdr(2, 0, 8, 0, 0, 0, 0), Chunk(T_IDAT, Base2x2)), 1, 6, -1),
      Input(Png(Ihdr(2, 2, 8, 0, 0, 0, 0), Chunk(T_tRNS, <<1, 2>>)), 1, 6, -1),
      Input(Png(Ihdr(2, 2, 8, 0, 0, 0, 0), Iend \o Chunk(T_IDAT, Base2x2)), 1, 6, -1) }

\* widths and heights decoded: all up to the bounds, and two images large
\* enough for scale 4 (the second with a trailing partial block)
Dims == ((1 .. MaxW) \X (1 .. MaxH)) \cup {<<4, 4>>, <<4, 5>>}

MainInputs ==
    Refused \cup UNION { GrayInputs(d[1], d[2], sc) : d \in Dims, sc \in {1, 2, 4} }

(* --------------------------- specifications --------------------------- *)
Next ==
    \/ Header
    \/ ScanChunks
    \/ Allocate
    \/ Decompress
    \/ AssembleStep
    \/ Advance

Init == InitWith(MainInputs)

Spec == Init /\ [][Next]_vars

\* the same machine with the fairness of a running call: sped_decode is
\* synchronous code, so whenever it has a next step it takes it
MaxLiveH == 2
LiveInputs == UNION { GrayInputs(1, ht, 1) : ht \in 1 .. MaxLiveH }
InitLive == InitWith(LiveInputs)
LiveSpec == InitLive /\ [][Next]_vars /\ WF_vars(Next)

(* pixel values: complete streams of several formats and filters *)
\* 2x2 8-bit RGB: (255,0,0) (0,255,0) / (0,0,255) (255,255,255)
Rgb2x2 ==
    Png(Ihdr(2, 2, 8, 2, 0, 0, 0),
        Chunk(T_IDAT, <<0, 255, 0, 0, 0, 255, 0, 0, 0, 0, 255, 255, 255, 255>>))

\* a 4-entry palette and index bytes below 4
Pal4 == Chunk(T_PLTE, <<10, 20, 30, 255, 0, 0, 0, 255, 0, 7, 77, 177>>)
Indexed(wd, ht, f) ==
    Png(Ihdr(wd, ht, 8, 3, 0, 0, 0), Pal4 \o Chunk(T_IDAT, Bytes(wd, ht, f, 1, 3, 4)))

Format(wd, ht, d, ct, f, q) ==
    Png(Ihdr(wd, ht, d, ct, 0, 0, 0),
        Chunk(T_IDAT, Scanlines(wd * BppOf(ct, d \div 8), ht, f, q)))

Complete(img, sc, wd, ht, nbpp) == Input(img, sc, ht * (wd * nbpp + 1), -1)

\* 1x1 indexed, depth 8: palette entry 0 = (10, 20, 30), the pixel is index 0
Idx1x1 ==
    Png(Ihdr(1, 1, 8, 3, 0, 0, 0),
        Chunk(T_PLTE, <<10, 20, 30>>) \o Chunk(T_IDAT, <<0, 0>>))

MaxFilter == 4
PixInputs ==
    { Complete(Rgb2x2, sc, 2, 2, 3) : sc \in {1, 2} }
      \cup { Complete(Idx1x1, 1, 1, 1, 1) }
      \cup { Complete(Gray(3, 4, Scanlines(3, 4, f, 200)), 2, 3, 4, 1) : f \in 0 .. MaxFilter }
      \cup { Complete(Gray(5, 4, Bytes(5, 4, 0, 255, 0, 256)), 4, 5, 4, 1),
             Complete(Gray(4, 4, Scanlines(4, 4, 4, 90)), 4, 4, 4, 1),
             Complete(Indexed(2, 2, 1), 2, 2, 2, 1),
             Complete(Format(2, 2, 8, 4, 3, 11), 2, 2, 2, 2),
             Complete(Format(2, 2, 8, 6, 2, 50), 2, 2, 2, 4),
             Complete(Format(2, 2, 16, 0, 1, 99), 2, 2, 2, 2),
             Complete(Format(2, 2, 16, 2, 4, 5), 2, 2, 2, 6) }

InitPix == InitWith(PixInputs)
SpecPix == InitPix /\ [][Next]_vars

(* IDAT splitting: one stream cut into one, two or three IDAT chunks *)
Cut3(ih, data, a, b) ==
    Png(ih, Chunk(T_IDAT, SubSeq(data, 1, a))
              \o Chunk(T_tRNS, <<9>>)
              \o Chunk(T_IDAT, SubSeq(data, a + 1, b))
              \o Chunk(T_IDAT, SubSeq(data, b + 1, Len(data))))
Cut2(ih, data, a) ==
    Png(ih, Chunk(T_IDAT, SubSeq(data, 1, a))
              \o Chunk(T_IDAT, SubSeq(data, a + 1, Len(data))))

\* every cut of the stream of a wd x ht grayscale image; the stream is
\* complete, or ends (DONE) after ht - 1 scanlines
SplitsOf(wd, ht, sc) ==
    LET ih == Ihdr(wd, ht, 8, 0, 0, 0, 0)
        D(n) == Scanlines(wd, n, 2, 60)
    IN  UNION { { Input(Png(ih, Chunk(T_IDAT, D(n))), sc, Len(D(n)), -1) }
                  \cup { Input(Cut2(ih, D(n), a), sc, Len(D(n)), -1) : a \in 0 .. Len(D(n)) }
                  \cup { Input(Cut3(ih, D(n), ab[1], ab[2]), sc, Len(D(n)), -1) :
                           ab \in { x \in (0 .. Len(D(n))) \X (0 .. Len(D(n))) : x[1] <= x[2] } }
              : n \in {ht - 1, ht} }

SplitInputs == SplitsOf(2, 2, 1) \cup SplitsOf(2, 2, 2) \cup SplitsOf(1, 3, 1)

InitSplit == InitWith(SplitInputs)
SpecSplit == InitSplit /\ [][Next]_vars

(* decoding twice: indexed images whose PLTE is missing, short or late *)
Idx2x1(body) == Png(Ihdr(2, 1, 8, 3, 0, 0, 0), body)
TwiceInputs ==
    { Input(Idx2x1(Chunk(T_IDAT, <<0, 0, 1>>)), 1, 3, -1),
      Input(Idx2x1(Chunk(T_PLTE, <<10, 20, 30>>) \o Chunk(T_IDAT, <<0, 0, 1>>)), 1, 3, -1),
      Input(Idx2x1(Chunk(T_PLTE, <<10, 20, 30, 40, 50, 60>>)
                     \o Chunk(T_IDAT, <<0, 0, 1>>)), 1, 3, -1),
      Input(Idx2x1(Chunk(T_IDAT, <<0, 0, 1>>)
                     \o Chunk(T_PLTE, <<10, 20, 30, 40, 50, 60>>)), 1, 3, -1),
      Input(Rgb2x2, 2, 14, -1) }

InitTwice == InitWith(TwiceInputs)
NextTwice ==
    \/ Header
    \/ ScanChunks
    \/ Allocate
    \/ Decompress
    \/ AssembleStep
    \/ Advance
    \/ Again
SpecTwice == InitTwice /\ [][NextTwice]_vars

(* streams that go on after the H-th scanline *)
\* a wd x ht grayscale image whose stream is complete, or holds one more
\* byte, or one more scanline, before it ends
ExtraInputs(wd, ht, sc) ==
    LET full == Scanlines(wd, ht, 0, 7)
        n    == Len(full)
    IN  { Input(Gray(wd, ht, full), sc, n, -1),
          Input(Gray(wd, ht, full \o <<5>>), sc, n + 1, -1),
          Input(Gray(wd, ht, Scanlines(wd, ht + 1, 0, 7)), sc, n + wd + 1, -1) }

LongInputs ==
    ExtraInputs(1, 1, 1) \cup ExtraInputs(2, 2, 1) \cup ExtraInputs(2, 2, 2)
      \cup ExtraInputs(1, 3, 1) \cup ExtraInputs(3, 2, 2)

InitLong == InitWith(LongInputs)
SpecLong == InitLong /\ [][Next]_vars

(* filtered images: scanlines forward-filtered as a PNG encoder does *)
\* the PNG predictor of filter type f from the left (a), upper (b) and
\* upper-left (c) bytes of the unfiltered image
PngPredictor(f, a, b, c) ==
    CASE f = 0 -> 0
      [] f = 1 -> a
      [] f = 2 -> b
      [] f = 3 -> (a + b) \div 2
      [] f > 4 -> 0
      [] f = 4 -> LET p == a + b - c
                      da == IF p >= a THEN p - a ELSE a - p
                      db == IF p >= b THEN p - b ELSE b - p
                      dc == IF p >= c THEN p - c ELSE c - p
                  IN  IF da <= db /\ da <= dc THEN a ELSE IF db <= dc THEN b ELSE c

\* Filt(x) = Orig(x) - predictor mod 256, for the scanline o above which
\* lies the unfiltered scanline up
FilterRow(o, up, f, nbpp) ==
    [k \in 1 .. Len(o) |->
        (o[k] + 256 - PngPredictor(f, IF k > nbpp THEN o[k - nbpp] ELSE 0, up[k],
                                   IF k > nbpp THEN up[k - nbpp] ELSE 0)) % 256]

\* nh original scanlines of s bytes
OrigRows(s, nh, q, d) == [r \in 1 .. nh |-> [k \in 1 .. s |-> (q + d * (r * s + k)) % 256]]

\* the filter type of row r (1-based) when the first row uses f: the types
\* follow each other round
FilterOf(f, r) == (f + r - 1) % (MaxFilter + 1)

\* the filtered stream of the rows o: filter byte, then the filtered bytes
RECURSIVE Encoded(_, _, _, _)
Encoded(o, f, nbpp, r) ==
    IF r > Len(o) THEN <<>>
    ELSE <<FilterOf(f, r)>>
           \o FilterRow(o[r], IF r = 1 THEN Zeros(Len(o[r])) ELSE o[r - 1], FilterOf(f, r), nbpp)
           \o Encoded(o, f, nbpp, r + 1)

\* a wd x ht image of colour type ct and depth d with its original scanlines
FilterCase(wd, ht, d, ct, f, q, dd) ==
    LET nbpp == BppOf(ct, d \div 8)
        o == OrigRows(wd * nbpp, ht, q, dd)
    IN  [orig |-> o,
         input |-> Complete(Png(Ihdr(wd, ht, d, ct, 0, 0, 0),
                                Chunk(T_IDAT, Encoded(o, f, nbpp, 1))), 1, wd, ht, nbpp)]

FilterCases ==
    { FilterCase(2, 3, k[2], k[1], f, 201, 37) :
        f \in 0 .. MaxFilter, k \in {<<0, 8>>, <<4, 8>>, <<2, 8>>, <<6, 8>>, <<2, 16>>} }
      \cup { FilterCase(3, 2, 8, 0, f, 250, 101) : f \in 0 .. MaxFilter }
      \cup { FilterCase(1, 2, 16, 6, f, 3, 89) : f \in 0 .. MaxFilter }

FilterInputs == { c.input : c \in FilterCases }
InitFilter == InitWith(FilterInputs)
SpecFilter == InitFilter /\ [][Next]_vars

(* a stream longer than the 32768-byte dictionary *)
\* 16 x 256, 16-bit RGBA: 256 scanlines of 129 bytes, 33024 bytes in all
BigImage ==
    Png(Ihdr(16, 256, 16, 6, 0, 0, 0), Chunk(T_IDAT, Bytes(128, 256, 0, 11, 7, 251)))

\* sped.c is written for any power of two TINFL_LZ_DICT_SIZE of the inflate
\* header it is built with: a dictionary of SmallDict bytes makes the
\* offset wrap several times during the decode of a small image
SmallDict == 8

\* grayscale images on a small dictionary: complete streams, a stream cut
\* short and a stream with a corrupt last byte
WrapInputs ==
    { Input(BigImage, 1, 33024, -1) }
      \cup { InputFor(Gray(d[1], d[2], Scanlines(d[1], d[2], f, 7)), sc,
                      d[2] * (d[1] + 1), -1, SmallDict) :
               d \in {<<2, 3>>, <<3, 4>>, <<7, 2>>, <<9, 2>>}, f \in {0, 1}, sc \in {1, 2} }
      \cup { InputFor(Gray(3, 4, SubSeq(Scanlines(3, 4, 2, 7), 1, 13)), 1, 16, -1, SmallDict),
             InputFor(Gray(3, 4, Scanlines(3, 4, 2, 7)), 1, 16, 15, SmallDict) }

InitWrap == InitWith(WrapInputs)
SpecWrap == InitWrap /\ [][Next]_vars

(* headers: sped_info and header validation on the same bytes *)
\* header only (33 bytes), and with the chunks after the header cut away
HeaderOnly(wd, ht, d, ct) == png_sig \o Ihdr(wd, ht, d, ct, 0, 0, 0)

\* widths whose byte product with bpp stays below, reaches or passes 2^31
\* and 2^32
Widths == {1, 2, 16909060, 268435456, 536870912, 1073741825, 2147483647}

\* the colour type / depth pairs validation accepts
Kinds == {<<0, 8>>, <<2, 8>>, <<3, 8>>, <<4, 8>>, <<6, 8>>,
          <<0, 16>>, <<2, 16>>, <<4, 16>>, <<6, 16>>}

HeaderInputs ==
    Refused
      \cup GrayInputs(2, 2, 1) \cup GrayInputs(1, 2, 2)
      \cup { Input(HeaderOnly(wd, 84281096, k[2], k[1]) \o tail, sc, 0, -1) :
               wd \in Widths, k \in Kinds, sc \in {1, 4}, tail \in {<<>>, Iend} }
      \cup { Input(SubSeq(HeaderOnly(2, 3, 8, 0) \o Iend, 1, n), 1, 0, -1) : n \in {7, 32, 34} }
      \cup { Input(png_sig \o Chunk(T_IHDR, BE32(2) \o BE32(3) \o <<8, 0, 0, 0, 0, 0>>)
                      \o Chunk(T_IDAT, Base2x2) \o Iend, 1, 6, -1),
             Input(Png(Ihdr(258, 772, 8, 0, 0, 0, 1), Chunk(T_IDAT, Base2x2)), 1, 6, -1) }

InitInfo == InitWith(HeaderInputs)
NextInfo ==
    \/ Info
    \/ Header
    \/ ScanChunks
    \/ Allocate
    \/ Decompress
    \/ AssembleStep
    \/ Advance
SpecInfo == InitInfo /\ [][NextInfo]_vars

(* ------------------------------ claims -------------------------------- *)
\* all requested buffers were obtained, so the decode loop was entered
Entered == pc \in {"call", "assemble", "done"} /\ allocd = Requested

\* the bytes of all collected IDAT chunks
PayloadLen(chunks) ==
    LET RECURSIVE Sum(_)
        Sum(i) == IF i = 0 THEN 0 ELSE chunks[i].len + Sum(i - 1)
    IN  Sum(Len(chunks))

\* header accepted, and the stream decompresses, without error, to exactly
\* H scanlines
WellFormed ==
    /\ Entered
    /\ ~(zbad >= 0 /\ zbad < zend)
    /\ zend = h * (stride + 1)
    /\ PayloadLen(idat) >= zend

\* C1: for a well-formed PNG and scale s the callback is invoked exactly
\* floor(H/s) times, with y = 0, 1, ... in increasing order and width
\* floor(W/s); a callback happens exactly on completing an input row r with
\* r mod s = s-1 (then y = r div s), so a trailing partial block is never
\* emitted.
C1_RowCallbacks ==
    /\ [](/\ \A i \in 1 .. Len(cbs) : cbs[i].y = i - 1 /\ cbs[i].w = w \div scale
          /\ Entered => Len(cbs) = row \div scale
          /\ (pc = "done" /\ WellFormed) => Len(cbs) = h \div scale)
    /\ [][/\ Len(cbs') # Len(cbs) =>
                /\ Len(cbs') = Len(cbs) + 1
                /\ row' = row + 1
                /\ row % scale = scale - 1
                /\ cbs'[Len(cbs')].y = row \div scale
          /\ (row' = row + 1 /\ row % scale = scale - 1) => Len(cbs') = Len(cbs) + 1
         ]_vars

\* a well-formed 2 x 3 image decoded at scale 2: one row out, the third
\* input row (a partial block) dropped
C1_Witness ==
    /\ pc = "done" /\ WellFormed
    /\ scale = 2 /\ h = 3 /\ row = 3
    /\ Len(cbs) = 1 /\ cbs[1].w = 1

\* C2: if tinfl reports DONE before H scanlines are assembled, sped_decode
\* returns failure.
C2_DoneEarlyFails ==
    (pc = "done" /\ Entered /\ st = TINFL_STATUS_DONE /\ row < h) => ret # 0

\* the conditions C3 lists, read off the image bytes
Listed ==
    \/ scale \notin {1, 2, 4}
    \/ Len(png) < 33
    \/ \E i \in 1 .. 8 : png[i] # png_sig[i]
    \/ <<png[9], png[10], png[11], png[12]>> # <<0, 0, 0, 13>>
    \/ <<png[13], png[14], png[15], png[16]>> # T_IHDR
    \/ png[27] # 0 \/ png[28] # 0 \/ png[29] # 0
    \/ png[25] \notin {8, 16}
    \/ (png[25] = 16 /\ png[26] = 3)
    \/ png[26] \notin {0, 2, 3, 4, 6}
    \/ r32(png, 16) = 0 \/ r32(png, 20) = 0
    \/ r32(png, 16) \div scale = 0 \/ r32(png, 20) \div scale = 0
    \/ Len(Scanned(png, png[26]).idat) = 0

\* C3: whenever one of the listed conditions holds, sped_decode returns
\* failure with no callback, and the decision falls before any buffer is
\* allocated or any row decoded.
C3_RejectsBeforeCallbacks ==
    Listed => /\ cbs = <<>>
              /\ pc \in {"header", "scan", "done"}
              /\ allocd = {}
              /\ pc = "done" => ret = -1

\* an interlaced image has been refused
C3_Witness ==
    /\ pc = "done" /\ ret = -1 /\ cbs = <<>>
    /\ Len(png) >= 33 /\ png[29] = 1 /\ scale = 1

\* C6: sped_decode always returns.
C6_Returns == <>(pc = "done")

\* C8 as stated: after a decompressor call has returned a negative status
\* no row callback is invoked.
C8_NoCallbackAfterFailure == [][st < 0 => cbs' = cbs]_vars

\* C8 amended: after a negative status no further decompressor call is
\* made and sped_decode returns failure; the output bytes the failing call
\* reported are still assembled first, and the rows they complete are emitted.
C8_FailureAborts ==
    [][st < 0 => /\ pc' \in {"assemble", "done"}
                 /\ fed' = fed /\ zpos' = zpos /\ st' = st
                 /\ pc' = "done" => ret' = -1
                 /\ Len(cbs') - Len(cbs) <= 1]_vars

\* the failing call has returned with at least one whole scanline of output
\* still to be assembled, and no row emitted yet
C8_Witness ==
    /\ pc = "assemble" /\ st < 0
    /\ cbs = <<>> /\ sl_pos = 0 /\ avail >= stride + 1 /\ scale = 1

\* C9: on every exit after allocation each buffer obtained is released
\* exactly once, whatever the number of cur/prev swaps; before allocation
\* nothing is allocated; nothing is released while the call still runs.
C9_ReleasedOnce ==
    /\ pc = "done" => \A b \in Blocks : nfree[b] = (IF b \in allocd THEN 1 ELSE 0)
    /\ pc # "done" => \A b \in Blocks : nfree[b] = 0
    /\ pc \in {"header", "scan", "alloc"} => allocd = {}

\* a successful downscaled decode returned after three swaps
C9_Witness ==
    /\ pc = "done" /\ ret = 0 /\ allocd = Blocks
    /\ row = 3 /\ cur = B_prev /\ prev = B_cur
    /\ \A b \in Blocks : nfree[b] = 1

\* the file offsets of the payload bytes of the collected IDAT chunks,
\* joined in file order
RECURSIVE OffsetsOf(_, _)
OffsetsOf(chunks, i) ==
    IF i > Len(chunks) THEN <<>>
    ELSE [k \in 1 .. chunks[i].len |-> chunks[i].data + k - 1] \o OffsetsOf(chunks, i + 1)

\* the IDAT stream: the payload of one concatenated IDAT chunk
IdatStream == [k \in 1 .. Len(OffsetsOf(idat, 1)) |-> At(png, OffsetsOf(idat, 1)[k])]

\* the first k scanlines of a decompressed stream, reconstructed
RECURSIVE RefLines(_, _)
RefLines(bytes, k) ==
    IF k = 0 THEN <<>>
    ELSE LET before == RefLines(bytes, k - 1)
             raw == SubSeq(bytes, (k - 1) * (stride + 1) + 2, k * (stride + 1))
             pv  == IF k = 1 THEN Zeros(stride) ELSE before[k - 1]
         IN  Append(before, Unfilter(raw, pv, bytes[(k - 1) * (stride + 1) + 1], bpp, 0))

\* the channel sums of the scale x scale blocks of rows from .. from+scale-1
RECURSIVE BlockSums(_, _, _)
BlockSums(ls, from, n) ==
    IF n = 0 THEN Zeros(out_w * 3)
    ELSE Accumulate(BlockSums(ls, from, n - 1), ls[from + n - 1], 0,
                    Min(out_w * scale, w), scale, ctype, bpc, pal, garbage)

\* the callbacks a list of reconstructed scanlines gives rise to
RefCallbacks(ls) ==
    IF scale = 1
    THEN [i \in 1 .. Len(ls) |->
            [y |-> i - 1, w |-> w, px |-> RowDirect(ls[i], w, ctype, bpc, pal, garbage)]]
    ELSE [i \in 1 .. Len(ls) \div scale |->
            [y |-> i - 1, w |-> out_w,
             px |-> RowAveraged(BlockSums(ls, (i - 1) * scale + 1, scale), out_w, scale)]]

\* C4: however the stream is cut into IDAT chunks, the bytes fed to tinfl
\* are the concatenation of the payloads in file order, each fed once, and
\* the return value and the callbacks are those of the one concatenated
\* stream (a function of the joined payload alone).
C4_SplitIndependent ==
    /\ Entered => fed = SubSeq(OffsetsOf(idat, 1), 1, Len(fed))
    /\ (pc = "done" /\ Entered) =>
          /\ ret = 0
          /\ fed = SubSeq(OffsetsOf(idat, 1), 1, zend)
          /\ cbs = RefCallbacks(RefLines(IdatStream,
                                   Min(h, Min(zend, Len(IdatStream)) \div (stride + 1))))

\* a complete decode of a stream cut into three chunks, the first cut inside
\* a scanline
C4_Witness ==
    /\ pc = "done" /\ ret = 0 /\ nidat = 3 /\ ci = 2
    /\ idat[1].len = 2 /\ idat[2].len = 3
    /\ row = h /\ Len(cbs) = 2

\* sum over the scale x scale block (ox, oy) of channel ch of the extracted
\* source pixels
BlockSum(oy, ox, ch) ==
    LET cell(n) == get_pixel(lines[oy * scale + (n \div scale) + 1],
                             ox * scale + (n % scale), ctype, bpc, pal, garbage)[ch]
        RECURSIVE Sum(_)
        Sum(n) == IF n = 0 THEN 0 ELSE cell(n - 1) + Sum(n - 1)
    IN  Sum(scale * scale)

\* C5: at scale 2 or 4 every emitted pixel (ox, oy) is the RGB565 packing of
\* the per-channel floor(sum / s^2) over the s x s source block; a row has
\* floor(W/s) pixels, so the columns beyond floor(W/s)*s reach no pixel.
C5_BlockAverage ==
    scale \in {2, 4} =>
      \A i \in 1 .. Len(cbs) :
        /\ Len(cbs[i].px) = w \div scale
        /\ \A ox \in 0 .. (w \div scale) - 1 :
             cbs[i].px[ox + 1] =
               ((((BlockSum(i - 1, ox, 1) \div (scale * scale)) \div 8) * 8) * 256
                 + (((BlockSum(i - 1, ox, 2) \div (scale * scale)) \div 4) * 4) * 8
                 + ((BlockSum(i - 1, ox, 3) \div (scale * scale)) \div 8))

\* a 3 x 4 image filtered with Paeth and halved: two rows of one pixel, the
\* third column unused
C5_Witness ==
    /\ pc = "done" /\ ret = 0 /\ scale = 2 /\ w = 3 /\ h = 4
    /\ Len(cbs) = 2 /\ Len(lines) = 4 /\ filter = 4
    /\ cbs[2].px # cbs[1].px

\* C7: two calls of sped_decode on the same bytes give the same return
\* value and the same callbacks.
C7_SameTwice ==
    (pc = "done" /\ calls = 2 /\ Entered /\ first.ok) =>
        (ret = first.ret /\ cbs = first.cbs)

\* C10 as stated: the 2x2 RGB image at scale 2 gives one row of one pixel
\* of value 0x8410.
C10_Pixel8410 ==
    (pc = "done" /\ Entered /\ png = Rgb2x2 /\ scale = 2) =>
        (ret = 0 /\ cbs = <<[y |-> 0, w |-> 1, px |-> <<33808>>]>>)

\* C10 amended: the value is 0x7BEF, the packing of (127, 127, 127), each
\* channel being floor(510 / 4).
C10_Pixel7BEF ==
    (pc = "done" /\ Entered /\ png = Rgb2x2 /\ scale = 2) =>
        (ret = 0 /\ cbs = <<[y |-> 0, w |-> 1, px |-> <<31727>>]>>)

C10_Witness ==
    /\ pc = "done" /\ Entered /\ png = Rgb2x2 /\ scale = 2
    /\ ret = 0 /\ Len(cbs) = 1 /\ row = 2

\* C11 as stated: the 1x1 indexed image whose palette entry 0 is (10,20,30),
\* decoded at scale 1, gives one row of one pixel of value 0x0842.
C11_Pixel0842 ==
    (pc = "done" /\ Entered /\ png = Idx1x1 /\ scale = 1) =>
        (ret = 0 /\ cbs = <<[y |-> 0, w |-> 1, px |-> <<2114>>]>>)

\* C11 amended: the value is 0x08A3 = ((10 & 0xF8) << 8) | ((20 & 0xFC) << 3)
\* | (30 >> 3) = 2048 + 160 + 3.
C11_Pixel08A3 ==
    (pc = "done" /\ Entered /\ png = Idx1x1 /\ scale = 1) =>
        (ret = 0 /\ cbs = <<[y |-> 0, w |-> 1, px |-> <<2211>>]>>)

C11_Witness ==
    /\ pc = "done" /\ Entered /\ png = Idx1x1 /\ scale = 1
    /\ ret = 0 /\ Len(cbs) = 1 /\ row = 1 /\ pal[0] = <<10, 20, 30>>

\* the big-endian 32-bit value at bytes off .. off+3 of the image
BigEndian(off) ==
    ((png[off + 1] * 256 + png[off + 2]) * 256 + png[off + 3]) * 256 + png[off + 4]

\* length >= 33, PNG signature, and an IHDR chunk of declared length 13 at
\* offset 8
InfoShouldSucceed ==
    /\ Len(png) >= 33
    /\ SubSeq(png, 1, 8) = <<137, 80, 78, 71, 13, 10, 26, 10>>
    /\ SubSeq(png, 9, 12) = <<0, 0, 0, 13>>
    /\ SubSeq(png, 13, 16) = <<73, 72, 68, 82>>

\* C12: sped_info succeeds exactly when length >= 33, the signature is
\* right and the chunk at offset 8 is IHDR of length 13; it then reports the
\* big-endian values at offsets 16 and 20, and on failure leaves the record
\* unchanged; on every image whose header sped_decode accepts it succeeds
\* and reports the W and H that decode uses.
C12_InfoAgrees ==
    info_called =>
        /\ info_ret = (IF InfoShouldSucceed THEN 0 ELSE -1)
        /\ info_ret = 0 => info = [width |-> BigEndian(16), height |-> BigEndian(20)]
        /\ info_ret # 0 => info = InfoBefore
        /\ w # 0 => (info_ret = 0 /\ info.width = w /\ info.height = h)

\* dimensions 0x01020304 x 0x05060708 reported, on an image whose header
\* sped_decode has accepted
C12_Witness ==
    /\ info_called /\ info_ret = 0
    /\ info = [width |-> 16909060, height |-> 84281096]
    /\ pc = "done" /\ w = 16909060 /\ h = 84281096

\* C18: for every header that validation accepts the stride equals the
\* product W * bpp and is >= 1 (no wrap in the 32-bit multiplication or in
\* the conversion to int), so the last extraction index (W-1)*bpp + bpp-1
\* is below the scanline size.  The product is compared by division.
C18_StrideIsProduct ==
    w # 0 => /\ stride >= 1
             /\ stride % bpp = 0
             /\ stride \div bpp = w

\* the bytes tinfl has output so far, in stream order
Stream == [i \in 1 .. zpos |-> At(png, fed[i])]

\* C13: scanline assembly does not depend on how tinfl batches its output:
\* whatever the batches were, the assembler has taken the output bytes in
\* order, the scanlines completed so far are those of the byte stream cut
\* every S+1 bytes (filter byte, then S body bytes), the callbacks are
\* those of these scanlines, and a scanline cut by a batch end keeps its
\* filter byte and the body bytes received so far.
C13_BatchIndependent ==
    Entered =>
        /\ row < h => zpos - avail = row * (stride + 1) + sl_pos
        /\ row = h => zpos - avail >= h * (stride + 1)
        /\ lines = RefLines(Stream, row)
        /\ cbs = RefCallbacks(lines)
        /\ (row < h /\ sl_pos >= 1) =>
              /\ filter = Stream[row * (stride + 1) + 1]
              /\ \A k \in 1 .. sl_pos - 1 :
                    mem[cur][k] = Stream[row * (stride + 1) + 1 + k]

\* a batch has ended inside the body of the second scanline of a Paeth
\* filtered image, and tinfl is about to be called again
C13_Witness ==
    /\ pc = "call" /\ Entered
    /\ row = 1 /\ sl_pos = 2 /\ stride >= 3 /\ filter = 4
    /\ st = TINFL_STATUS_HAS_MORE_OUTPUT

\* a batch has ended right after a filter byte
C13_WitnessFilterByte ==
    /\ pc = "call" /\ Entered /\ row = 1 /\ sl_pos = 1 /\ filter = 3

\* C14: sl_pos stays in [0, S+1], and in [0, S] between decompressor calls;
\* row stays in [0, H]; every copy into cur writes offsets in [0, S): it
\* starts at sl_pos - 1 >= 0 and its length is at most S - (sl_pos - 1).
C14_AssemblyBounds ==
    /\ [](/\ sl_pos >= 0 /\ sl_pos <= stride + 1
          /\ pc = "call" => sl_pos <= stride
          /\ row >= 0 /\ row <= h
          /\ Entered => Len(mem[cur]) = stride)
    /\ [][(pc = "assemble" /\ pc' = "assemble" /\ sl_pos >= 1) =>
              /\ dp' - dp >= 0
              /\ dp' - dp <= stride - (sl_pos - 1)
              /\ (sl_pos - 1) + (dp' - dp) <= stride
              /\ dp' - dp = avail - avail'
         ]_vars

\* all H rows are assembled and the stream still has output bytes pending
C14_Witness ==
    /\ pc = "assemble" /\ Entered /\ row = h /\ avail > 0 /\ sl_pos = 0 /\ h = 2

\* C15: a stream that still has decompressed bytes after the H-th scanline
\* makes sped_decode return failure.
C15_ExtraFails ==
    (pc = "done" /\ Entered /\ zend > h * (stride + 1)) => ret # 0

\* channel ch of output column ox summed over the rows of the current
\* block assembled so far (row % scale of them), without any wrap
PartialSum(ox, ch) ==
    LET top == row - (row % scale)
        cell(n) == get_pixel(lines[top + (n \div scale) + 1],
                             ox * scale + (n % scale), ctype, bpc, pal, garbage)[ch]
        RECURSIVE Sum(_)
        Sum(n) == IF n = 0 THEN 0 ELSE cell(n - 1) + Sum(n - 1)
    IN  Sum((row % scale) * scale)

\* C16: while downscaling every accumulator lane holds the exact channel
\* sum of the block rows seen so far, at most scale^2 * 255 <= 4080, so a
\* 16-bit lane never wraps; all lanes are zero whenever the next input row
\* r has r mod scale = 0; every lane index written, (x div scale)*3 + 2 for
\* x below min(out_w*scale, W), is below 3*out_w, the number of lanes.
C16_LanesBounded ==
    (Entered /\ scale \in {2, 4}) =>
        /\ Len(mem[acc]) = 3 * out_w
        /\ \A ox \in 0 .. out_w - 1 : \A ch \in 1 .. 3 :
              /\ mem[acc][ox * 3 + ch] = PartialSum(ox, ch)
              /\ mem[acc][ox * 3 + ch] <= scale * scale * 255
              /\ mem[acc][ox * 3 + ch] <= 4080
              /\ mem[acc][ox * 3 + ch] < 65536
              /\ row % scale = 0 => mem[acc][ox * 3 + ch] = 0
        /\ \A x \in 0 .. (IF out_w * scale < w THEN out_w * scale ELSE w) - 1 :
              (x \div scale) * 3 + 2 < 3 * out_w

\* three rows of an all-white 5 x 4 image accumulated at scale 4: the lanes
\* hold 3060 and the fifth column has reached no lane
C16_Witness ==
    /\ Entered /\ scale = 4 /\ w = 5 /\ row = 3
    /\ mem[acc] = <<3060, 3060, 3060>>

\* C20: forward-filtering original scanlines per the PNG definition (types
\* 0..4, bpp 1, 2, 3, 4, 6, 8, zeros above row 0) and decoding gives back
\* the original bytes, and across rows prev holds the previous row's
\* reconstructed bytes.
C20_FilterRoundTrip ==
    \A c \in FilterCases :
        (png = c.input.png /\ Entered) =>
            /\ lines = SubSeq(c.orig, 1, row)
            /\ mem[prev] = (IF row = 0 THEN Zeros(stride) ELSE c.orig[row])
            /\ pc = "done" => (ret = 0 /\ row = h)

\* three rows of an RGB image reconstructed, the third Paeth-filtered and
\* stored differently from its original bytes
C20_Witness ==
    /\ pc = "done" /\ ret = 0 /\ Entered /\ row = 3 /\ bpp = 3 /\ filter = 4
    /\ \E c \in FilterCases :
          /\ png = c.input.png
          /\ lines = c.orig
          /\ FilterRow(c.orig[3], c.orig[2], 4, 3) # c.orig[3]

\* C17: at every decompressor call 0 <= dict_ofs < TINFL_LZ_DICT_SIZE
\* (32768 for miniz) and the window offered is the non-empty
\* dict[dict_ofs .. size), so dict_ofs + out_bytes <= size; after the call
\* dict_ofs is the number of bytes output so far modulo the size; the bytes
\* handed to the assembler are the out_bytes just written at the old
\* dict_ofs; every output byte is taken once, in stream order, until row
\* reaches H.
C17_DictWindow ==
    /\ [](/\ dict_ofs >= 0 /\ dict_ofs < dict_size
          /\ Entered =>
                /\ dict_ofs = zpos % dict_size
                /\ dp >= 0 /\ dp + avail <= dict_size
                /\ row < h => zpos - avail = row * (stride + 1) + sl_pos
                /\ \A r \in {row} \ {0} :
                      lines[r] = Unfilter([k \in 1 .. stride |->
                                              Stream[(r - 1) * (stride + 1) + 1 + k]],
                                          IF r = 1 THEN Zeros(stride) ELSE lines[r - 1],
                                          Stream[(r - 1) * (stride + 1) + 1], bpp, 0))
    /\ [][pc = "call" =>
              /\ dict_size - dict_ofs >= 1
              /\ dp' = dict_ofs
              /\ avail' = zpos' - zpos
              /\ dict_ofs + avail' <= dict_size
              /\ dict_ofs' = (dict_ofs + avail') % dict_size
              /\ \A i \in 0 .. avail' - 1 :
                    At(mem'[dict], dict_ofs + i) = At(png, fed'[zpos + i + 1])
         ]_vars

\* a 2 x 3 image decoded through an 8-byte dictionary: 9 bytes were
\* output, the offset wrapped from 7 to 0 and the ninth byte lies at
\* offset 0, next to the second byte of the stream
C17_Witness ==
    /\ pc = "done" /\ ret = 0 /\ Entered /\ row = h /\ h = 3 /\ w = 2 /\ scale = 1
    /\ dict_size = SmallDict /\ zpos = 9 /\ dict_ofs = 1 /\ filter = 1
    /\ At(mem[dict], 0) = Stream[9]
    /\ At(mem[dict], 1) = Stream[2]

(* chunk lengths: chunks cut short, lengths of 2^31 and more *)
T_tEXt == <<116, 69, 88, 116>>

\* a 1 x 1 grayscale image whose first chunk after IHDR is a tEXt chunk
\* with the four length bytes lb, followed by body
Lengthy(lb, body) ==
    png_sig \o Ihdr(1, 1, 8, 0, 0, 0, 0) \o lb \o T_tEXt \o body \o Iend

\* a wd x ht grayscale image with one IDAT chunk for every byte of its stream
RECURSIVE OneEach(_, _)
OneEach(data, i) ==
    IF i > Len(data) THEN <<>>
    ELSE Chunk(T_IDAT, <<data[i]>>) \o OneEach(data, i + 1)

ScanInputs ==
    GrayInputs(2, 2, 1) \cup GrayInputs(1, 1, 1)
      \cup { \* the length 0xFFFFFFFC: 12 + len is 8 modulo 2^32, and an
             \* IDAT chunk starts 8 bytes after the tEXt chunk does
             Input(Lengthy(<<255, 255, 255, 252>>, Chunk(T_IDAT, <<0, 7>>)), 1, 2, -1),
             \* 0xFFFFFFF4: 12 + len is 0 modulo 2^32
             Input(Lengthy(<<255, 255, 255, 244>>, Chunk(T_IDAT, <<0, 7>>)), 1, 2, -1),
             \* 0xFFFFFF00: 12 + len is -244 modulo 2^32
             Input(Lengthy(<<255, 255, 255, 0>>, Chunk(T_IDAT, <<0, 7>>)), 1, 2, -1),
             \* an empty tEXt chunk, then a chunk whose length leads back to it
             Input(Lengthy(<<0, 0, 0, 0>>,
                           <<0, 0, 0, 0, 255, 255, 255, 232>> \o T_tEXt
                             \o Chunk(T_IDAT, <<0, 7>>)), 1, 2, -1),
             \* a length of 100 in a buffer that ends sooner, before the IDAT
             Input(Lengthy(<<0, 0, 0, 100>>, Chunk(T_IDAT, <<0, 7>>)), 1, 2, -1),
             \* a whole tEXt chunk, then IDAT; bytes after IEND
             Input(Lengthy(<<0, 0, 0, 3>>, <<1, 2, 3, 0, 0, 0, 0>>
                             \o Chunk(T_IDAT, <<0, 7>>))
                     \o Chunk(T_IDAT, <<0, 9>>), 1, 2, -1),
             \* one IDAT chunk for each of the 6 bytes of a 1 x 3 image
             Input(Png(Ihdr(1, 3, 8, 0, 0, 0, 0), OneEach(Scanlines(1, 3, 0, 7), 1)),
                   1, 6, -1) }

InitScan == InitWith(ScanInputs)
SpecScan == InitScan /\ [][Next]_vars

\* the IDAT chunks the claim counts: the walk over
\* [len:4BE][type:4][data:len][crc:4] from offset off, up to the first
\* chunk with off + 12 + len > L for the declared len, or IEND
RECURSIVE WholeIdats(_, _)
WholeIdats(buf, off) ==
    IF off + 12 > Len(buf) THEN <<>>
    ELSE IF At(buf, off) >= 128 THEN <<>>
    ELSE IF r32(buf, off) > Len(buf) - off - 12 THEN <<>>
    ELSE IF SameBytes(buf, off + 4, T_IEND) THEN <<>>
    ELSE (IF SameBytes(buf, off + 4, T_IDAT)
          THEN <<[data |-> off + 8, len |-> r32(buf, off)]>>
          ELSE <<>>) \o WholeIdats(buf, off + 12 + r32(buf, off))

\* C19: the scan from offset 33 records exactly the first min(n, 64) IDAT
\* chunks that lie wholly inside the buffer before the first IEND and the
\* first truncated chunk, for every declared length in 0 .. 2^32 - 1.
C19_ScanExact ==
    pc = "alloc" =>
        idat = SubSeq(WholeIdats(png, 33), 1, Min(Len(WholeIdats(png, 33)), SPED_MAX_IDAT))

====
